---- MODULE Spec2Model ----
(***************************************************************************)
(* Calibration-pattern generator (gen_pattern.py): the PatternMaker        *)
(* layout engine, its drawing group, and the callers that serialize it.    *)
(* Python floats are modelled as exact rationals <<numerator, denominator>>*)
(* (denominator > 0, lowest terms).                                        *)
(***************************************************************************)
EXTENDS Integers, Sequences, FiniteSets, TLC

(* ---------------------------------------------------------------- bounds *)
MaxCols == 3
MaxRows == 3
MaxMarkers == 5
MaxBits == 2
MaxSerial == 2

(* ------------------------------------------------- defaults of the callers *)
DefaultColumns == 8
DefaultRows == 11
DefaultSquareSize == 20
DefaultRadiusRate == 5
DefaultMarkerSize == 10
A4Width == 210
A4Height == 297
A5Width == 148
A5Height == 210

(* ------------------------------------------------------ float arithmetic *)
Abs(a) == IF a < 0 THEN -a ELSE a

RECURSIVE GCD(_, _)
GCD(a, b) == IF b = 0 THEN a ELSE GCD(b, a % b)

Frac(n, d) ==
    LET s == IF d < 0 THEN -1 ELSE 1
        k == GCD(Abs(n), Abs(d))
    IN  <<(s * n) \div k, (s * d) \div k>>

Q(n) == <<n, 1>>

QAdd(a, b) == Frac(a[1] * b[2] + b[1] * a[2], a[2] * b[2])
QSub(a, b) == Frac(a[1] * b[2] - b[1] * a[2], a[2] * b[2])
QMul(a, b) == Frac(a[1] * b[1], a[2] * b[2])
QDiv(a, b) == Frac(a[1] * b[2], a[2] * b[1])
QLt(a, b) == a[1] * b[2] < b[1] * a[2]
QGt(a, b) == QLt(b, a)

(* int(v) of a float: truncation towards zero *)
PyInt(a) == IF a[1] >= 0 THEN a[1] \div a[2] ELSE -((-a[1]) \div a[2])

(* mutant: the remainder of truncated division, negative for negative x *)
TruncRem2(x) == IF x < 0 THEN -((-x) % 2) ELSE x % 2

(* Python's x % 2 on ints: the result has the sign of the divisor *)
PyMod2(x) == x % 2

(* ------------------------------------------------------------ primitives *)
circle(center, r, fill, stroke) ==
    [shape |-> "circle", center |-> center, r |-> r, fill |-> fill, stroke |-> stroke]

(* mutant: the outline drawn in the fill colour *)
rect_outlined(insert, size, fill, stroke) ==
    [shape |-> "rect", insert |-> insert, size |-> size, fill |-> fill, stroke |-> fill]

rect(insert, size, fill, stroke) ==
    [shape |-> "rect", insert |-> insert, size |-> size, fill |-> fill, stroke |-> stroke]

path(d, fill, stroke) ==
    [shape |-> "path", d |-> d, fill |-> fill, stroke |-> stroke]

(* for x in range(0, cols): for y in range(0, rows) *)
CellsXOuter(cols, rows) ==
    [k \in 1..(cols * rows) |-> <<(k - 1) \div rows, (k - 1) % rows>>]

(* mutant: the marker board scanned like the other boards, x outer *)
CellsYOuterSwapped(cols, rows) ==
    [k \in 1..(cols * rows) |-> <<(k - 1) \div rows, (k - 1) % rows>>]

(* for y in range(0, rows): for x in range(0, cols) *)
CellsYOuter(cols, rows) ==
    [k \in 1..(cols * rows) |-> <<(k - 1) % cols, (k - 1) \div cols>>]

(* mutant: the parity test inverted *)
FilledInverted(x, y) == PyMod2(x) # PyMod2(y)

Filled(x, y) == PyMod2(x) = PyMod2(y)

(* ------------------------------------------------------- circle patterns *)
(* mutant: the pattern height taken from the columns *)
CirclesLayoutColsForRows(self) ==
    LET spacing == self.square_size
        r == QDiv(spacing, self.radius_rate)
        pattern_width == QAdd(QMul(Q(self.cols - 1), spacing), QMul(Q(2), r))
        pattern_height == QAdd(QMul(Q(self.cols - 1), spacing), QMul(Q(2), r))
    IN  [r |-> r,
         x_spacing |-> QDiv(QSub(self.width, pattern_width), Q(2)),
         y_spacing |-> QDiv(QSub(self.height, pattern_height), Q(2))]

(* r, x_spacing, y_spacing of make_circles_pattern *)
CirclesLayout(self) ==
    LET spacing == self.square_size
        r == QDiv(spacing, self.radius_rate)
        pattern_width == QAdd(QMul(Q(self.cols - 1), spacing), QMul(Q(2), r))
        pattern_height == QAdd(QMul(Q(self.rows - 1), spacing), QMul(Q(2), r))
    IN  [r |-> r,
         x_spacing |-> QDiv(QSub(self.width, pattern_width), Q(2)),
         y_spacing |-> QDiv(QSub(self.height, pattern_height), Q(2))]

make_circles_pattern(self) ==
    LET spacing == self.square_size
        cells == CellsXOuter(self.cols, self.rows)
    IN  [k \in 1..Len(cells) |->
            LET x == cells[k][1]
                y == cells[k][2]
                l == CirclesLayout(self)
            IN  circle(<<QAdd(QAdd(QMul(Q(x), spacing), l.x_spacing), l.r),
                         QAdd(QAdd(QMul(Q(y), spacing), l.y_spacing), l.r)>>,
                       l.r, "black", "none")]

(* r, x_spacing, y_spacing of make_acircles_pattern *)
ACirclesLayout(self) ==
    LET spacing == self.square_size
        r == QDiv(spacing, self.radius_rate)
        pattern_width == QAdd(QAdd(QMul(Q((self.cols - 1) * 2), spacing), spacing),
                              QMul(Q(2), r))
        pattern_height == QAdd(QMul(Q(self.rows - 1), spacing), QMul(Q(2), r))
    IN  [r |-> r,
         x_spacing |-> QDiv(QSub(self.width, pattern_width), Q(2)),
         y_spacing |-> QDiv(QSub(self.height, pattern_height), Q(2))]

(* mutant: the row shift without the % 2 *)
ACircleCenterNoMod(self, x, y) ==
    LET spacing == self.square_size
        l == ACirclesLayout(self)
    IN  <<QAdd(QAdd(QAdd(QMul(Q(2 * x), spacing), QMul(Q(y), spacing)), l.x_spacing), l.r),
          QAdd(QAdd(QMul(Q(y), spacing), l.y_spacing), l.r)>>

(* the center of the circle of cell (x, y) *)
ACircleCenter(self, x, y) ==
    LET spacing == self.square_size
        l == ACirclesLayout(self)
    IN  <<QAdd(QAdd(QAdd(QMul(Q(2 * x), spacing), QMul(Q(PyMod2(y)), spacing)),
                    l.x_spacing), l.r),
          QAdd(QAdd(QMul(Q(y), spacing), l.y_spacing), l.r)>>

make_acircles_pattern(self) ==
    LET cells == CellsXOuter(self.cols, self.rows)
    IN  [k \in 1..Len(cells) |->
            circle(ACircleCenter(self, cells[k][1], cells[k][2]),
                   ACirclesLayout(self).r, "black", "none")]

(* ---------------------------------------------------------- checkerboard *)
make_checkerboard_pattern(self) ==
    LET spacing == self.square_size
        xspacing == QDiv(QSub(self.width, QMul(Q(self.cols), self.square_size)), Q(2))
        yspacing == QDiv(QSub(self.height, QMul(Q(self.rows), self.square_size)), Q(2))
        cells == SelectSeq(CellsXOuter(self.cols, self.rows),
                           LAMBDA c : Filled(c[1], c[2]))
    IN  [k \in 1..Len(cells) |->
            LET x == cells[k][1]
                y == cells[k][2]
            IN  rect(<<QAdd(QMul(Q(x), spacing), xspacing),
                       QAdd(QMul(Q(y), spacing), yspacing)>>,
                     <<spacing, spacing>>, "black", "none")]

(* ------------------------------------------------------ rounded rectangle *)
MoveTo(px, py) == [op |-> "M", to |-> <<px, py>>]
LineTo(px, py) == [op |-> "L", to |-> <<px, py>>]
ArcTo(rx, ry, px, py) == [op |-> "A", r |-> <<rx, ry>>, to |-> <<px, py>>]
ClosePath == [op |-> "Z"]

(* corners[i], cw_point[i], mid_cw_point[i] are 0-based in the source and
   1-based here: index i of the source is i + 1 below. *)
_make_round_rect(x, y, diam, corners) ==
    LET rad == QDiv(diam, Q(2))
        start == <<MoveTo(QAdd(x, rad), y)>>
        cw_point == <<<<Q(0), Q(0)>>, <<diam, Q(0)>>, <<diam, diam>>, <<Q(0), diam>>>>
        mid_cw_point == <<<<Q(0), rad>>, <<rad, Q(0)>>, <<diam, rad>>, <<rad, diam>>>>
        n == Len(cw_point)
        next(i) == mid_cw_point[((i + 1) % n) + 1]
        piece(i) ==
            IF corners[i + 1] = "right"
            THEN <<LineTo(QAdd(x, cw_point[i + 1][1]), QAdd(y, cw_point[i + 1][2])),
                   LineTo(QAdd(x, next(i)[1]), QAdd(y, next(i)[2]))>>
            ELSE <<ArcTo(rad, rad, QAdd(x, next(i)[1]), QAdd(y, next(i)[2]))>>
    IN  start \o piece(0) \o piece(1) \o piece(2) \o piece(3) \o <<ClosePath>>

(* mutant: the top edge rounding the corners one index further on *)
_get_type_shifted(self, x, y) ==
    LET c0 == <<"right", "right", "right", "right">>
        c1 == IF x = 0 THEN [c0 EXCEPT ![1] = "round", ![4] = "round"] ELSE c0
        c2 == IF y = 0 THEN [c1 EXCEPT ![2] = "round", ![3] = "round"] ELSE c1
        c3 == IF x = self.cols - 1 THEN [c2 EXCEPT ![2] = "round", ![3] = "round"] ELSE c2
        c4 == IF y = self.rows - 1 THEN [c3 EXCEPT ![3] = "round", ![4] = "round"] ELSE c3
        is_inside == ~(x = 0 \/ y = 0 \/ x = self.cols - 1 \/ y = self.rows - 1)
    IN  [corners |-> c4, is_inside |-> is_inside]

_get_type(self, x, y) ==
    LET c0 == <<"right", "right", "right", "right">>
        c1 == IF x = 0 THEN [c0 EXCEPT ![1] = "round", ![4] = "round"] ELSE c0
        c2 == IF y = 0 THEN [c1 EXCEPT ![1] = "round", ![2] = "round"] ELSE c1
        c3 == IF x = self.cols - 1 THEN [c2 EXCEPT ![2] = "round", ![3] = "round"] ELSE c2
        c4 == IF y = self.rows - 1 THEN [c3 EXCEPT ![3] = "round", ![4] = "round"] ELSE c3
        is_inside == ~(x = 0 \/ y = 0 \/ x = self.cols - 1 \/ y = self.rows - 1)
    IN  [corners |-> c4, is_inside |-> is_inside]

(* ----------------------------------------------------- Radon checkerboard *)
RadonCell(self, x, y) ==
    LET spacing == self.square_size
        xspacing == QDiv(QSub(self.width, QMul(Q(self.cols), self.square_size)), Q(2))
        yspacing == QDiv(QSub(self.height, QMul(Q(self.rows), self.square_size)), Q(2))
        t == _get_type(self, x, y)
        px == QAdd(QMul(Q(x), spacing), xspacing)
        py == QAdd(QMul(Q(y), spacing), yspacing)
    IN  IF t.is_inside
        THEN rect(<<px, py>>, <<spacing, spacing>>, "black", "none")
        ELSE path(_make_round_rect(px, py, spacing, t.corners), "black", "none")

(* mutant: the overlay footprint counting cols and rows spacings *)
RadonDotFullSpan(self, x, y) ==
    LET spacing == self.square_size
        r == QMul(self.square_size, Frac(17, 100))
        pattern_width == QAdd(QMul(Q(self.cols), spacing), QMul(Q(2), r))
        pattern_height == QAdd(QMul(Q(self.rows), spacing), QMul(Q(2), r))
        x_spacing == QDiv(QSub(self.width, pattern_width), Q(2))
        y_spacing == QDiv(QSub(self.height, pattern_height), Q(2))
        color == IF PyMod2(x) = PyMod2(y) THEN "white" ELSE "black"
    IN  circle(<<QAdd(QAdd(QMul(Q(x), spacing), x_spacing), r),
                 QAdd(QAdd(QMul(Q(y), spacing), y_spacing), r)>>,
               r, color, "none")

(* the overlay dot of one (x, y) of self.markers *)
RadonDot(self, x, y) ==
    LET spacing == self.square_size
        r == QMul(self.square_size, Frac(17, 100))
        pattern_width == QAdd(QMul(Q(self.cols - 1), spacing), QMul(Q(2), r))
        pattern_height == QAdd(QMul(Q(self.rows - 1), spacing), QMul(Q(2), r))
        x_spacing == QDiv(QSub(self.width, pattern_width), Q(2))
        y_spacing == QDiv(QSub(self.height, pattern_height), Q(2))
        color == IF PyMod2(x) = PyMod2(y) THEN "white" ELSE "black"
    IN  circle(<<QAdd(QAdd(QMul(Q(x), spacing), x_spacing), r),
                 QAdd(QAdd(QMul(Q(y), spacing), y_spacing), r)>>,
               r, color, "none")

make_radon_checkerboard_pattern(self) ==
    LET cells == SelectSeq(CellsXOuter(self.cols, self.rows),
                           LAMBDA c : Filled(c[1], c[2]))
        squares == [k \in 1..Len(cells) |-> RadonCell(self, cells[k][1], cells[k][2])]
        dots == IF self.markers.given
                THEN [k \in 1..Len(self.markers.list) |->
                        RadonDot(self, self.markers.list[k][1], self.markers.list[k][2])]
                ELSE <<>>
    IN  squares \o dots

(* ----------------------------------------------------------- marker board *)
(* mutant: the bits written from the array's corner, without the border offset *)
_create_marker_bits_no_border(markerSize_bits, byteList) ==
    [i \in 0..(markerSize_bits + 1) |->
        [j \in 0..(markerSize_bits + 1) |->
            IF i \in 0..(markerSize_bits - 1) /\ j \in 0..(markerSize_bits - 1)
            THEN byteList[i * markerSize_bits + j + 1]
            ELSE 0]]

(* mutant: the flat sequence read column by column *)
_create_marker_bits_transposed(markerSize_bits, byteList) ==
    [i \in 0..(markerSize_bits + 1) |->
        [j \in 0..(markerSize_bits + 1) |->
            IF i \in 1..markerSize_bits /\ j \in 1..markerSize_bits
            THEN byteList[(j - 1) * markerSize_bits + (i - 1) + 1]
            ELSE 0]]

(* byteList is 0-based in the source, a 1-based sequence here.  The result
   is the (markerSize_bits+2)-square array, indexed [row][column] from 0. *)
_create_marker_bits(markerSize_bits, byteList) ==
    [i \in 0..(markerSize_bits + 1) |->
        [j \in 0..(markerSize_bits + 1) |->
            IF i \in 1..markerSize_bits /\ j \in 1..markerSize_bits
            THEN byteList[(i - 1) * markerSize_bits + (j - 1) + 1]
            ELSE 0]]

rect_stroked(insert, size, fill, stroke, stroke_width) ==
    [shape |-> "rect", insert |-> insert, size |-> size, fill |-> fill,
     stroke |-> stroke, stroke_width |-> stroke_width]

MarkerTooLargeMsg == "Error: Aruco marker cannot be larger than chessboard square!"
InsufficientMarkersMsg ==
    "Error: Aruco dictionary contains fewer markers than needed for the chosen board."
NarrowBorderMsg == "Marker border is less than 70% of ArUco pin size"

(* mutant: the quotient rounded up *)
MarkersNeededCeil(self) == (self.cols * self.rows + 1) \div 2

(* the threshold nmarkers is compared against *)
MarkersNeeded(self) == PyInt(QDiv(Q(self.cols * self.rows), Q(2)))

(* one marker cell: the black marker square, then its white bit squares *)
CharucoMarker(self, x, y, img_mark) ==
    LET markerSize_bits == self.dictionary.markersize
        side == QDiv(self.aruco_marker_size, Q(markerSize_bits + 2))
        spacing == self.square_size
        xspacing == QDiv(QSub(self.width, QMul(Q(self.cols), self.square_size)), Q(2))
        yspacing == QDiv(QSub(self.height, QMul(Q(self.rows), self.square_size)), Q(2))
        ch_ar_border == QDiv(QSub(self.square_size, self.aruco_marker_size), Q(2))
        x_pos == QAdd(QMul(Q(x), spacing), xspacing)
        y_pos == QAdd(QMul(Q(y), spacing), yspacing)
        n == markerSize_bits + 2
        set == SelectSeq(CellsXOuter(n, n), LAMBDA c : img_mark[c[2]][c[1]] # 0)
    IN  <<rect(<<QAdd(x_pos, ch_ar_border), QAdd(y_pos, ch_ar_border)>>,
               <<self.aruco_marker_size, self.aruco_marker_size>>, "black", "none")>>
        \o [k \in 1..Len(set) |->
               rect_stroked(<<QAdd(QAdd(x_pos, ch_ar_border), QMul(Q(set[k][1]), side)),
                              QAdd(QAdd(y_pos, ch_ar_border), QMul(Q(set[k][2]), side))>>,
                            <<side, side>>, "white", "white",
                            QMul(spacing, Frac(1, 100)))]

CharucoSquare(self, x, y) ==
    LET spacing == self.square_size
        xspacing == QDiv(QSub(self.width, QMul(Q(self.cols), self.square_size)), Q(2))
        yspacing == QDiv(QSub(self.height, QMul(Q(self.rows), self.square_size)), Q(2))
    IN  rect(<<QAdd(QMul(Q(x), spacing), xspacing), QAdd(QMul(Q(y), spacing), yspacing)>>,
             <<spacing, spacing>>, "black", "none")

(* the grid pass from cell number k (y outer, x inner) on; ids is the
   sequence of marker ids looked up so far.  A marker id that is no key of
   the dictionary raises KeyError and leaves what was emitted before it. *)
RECURSIVE CharucoLoop(_, _, _, _, _)
CharucoLoop(self, cells, k, acc, ids) ==
    IF k > Len(cells)
    THEN [g |-> acc, ids |-> ids, raised |-> "none"]
    ELSE LET x == cells[k][1]
             y == cells[k][2]
             marker_id == Len(ids)
         IN  IF Filled(x, y)
             THEN CharucoLoop(self, cells, k + 1,
                              Append(acc, CharucoSquare(self, x, y)), ids)
             ELSE IF marker_id \notin DOMAIN self.dictionary.marker
                  THEN [g |-> acc, ids |-> Append(ids, marker_id), raised |-> "KeyError"]
                  ELSE CharucoLoop(self, cells, k + 1,
                           acc \o CharucoMarker(self, x, y,
                                     _create_marker_bits(self.dictionary.markersize,
                                                         self.dictionary.marker[marker_id])),
                           Append(ids, marker_id))

(* mutant: >= in place of > *)
MarkerTooLargeOrEqual(self) == ~QLt(self.aruco_marker_size, self.square_size)

MarkerTooLarge(self) == QGt(self.aruco_marker_size, self.square_size)

(* mutant: the comparison off by one *)
InsufficientMarkersOffByOne(self) == self.dictionary.nmarkers + 1 < MarkersNeeded(self)

InsufficientMarkers(self) == self.dictionary.nmarkers < MarkersNeeded(self)

NarrowBorder(self) ==
    LET side == QDiv(self.aruco_marker_size, Q(self.dictionary.markersize + 2))
        ch_ar_border == QDiv(QSub(self.square_size, self.aruco_marker_size), Q(2))
    IN  QLt(ch_ar_border, QMul(side, Frac(7, 10)))

(* mutant: the marker count checked after the grid pass *)
make_charuco_board_late_check(self) ==
    IF MarkerTooLarge(self)
    THEN [g |-> <<>>, ids |-> <<>>, raised |-> "none", printed |-> <<MarkerTooLargeMsg>>]
    ELSE LET res == CharucoLoop(self, CellsYOuter(self.cols, self.rows), 1, <<>>, <<>>)
         IN  IF InsufficientMarkers(self)
             THEN [g |-> res.g, ids |-> res.ids, raised |-> "none",
                   printed |-> <<InsufficientMarkersMsg>>]
             ELSE [g |-> res.g, ids |-> res.ids, raised |-> res.raised,
                   printed |-> IF NarrowBorder(self) THEN <<NarrowBorderMsg>> ELSE <<>>]

(* every generator returns None; what differs is what was printed, what
   was raised and what was added to the group *)
make_charuco_board(self) ==
    IF MarkerTooLarge(self)
    THEN [g |-> <<>>, ids |-> <<>>, raised |-> "none", printed |-> <<MarkerTooLargeMsg>>]
    ELSE IF InsufficientMarkers(self)
    THEN [g |-> <<>>, ids |-> <<>>, raised |-> "none", printed |-> <<InsufficientMarkersMsg>>]
    ELSE LET res == CharucoLoop(self, CellsYOuter(self.cols, self.rows), 1, <<>>, <<>>)
         IN  [g |-> res.g, ids |-> res.ids, raised |-> res.raised,
              printed |-> IF NarrowBorder(self) THEN <<NarrowBorderMsg>> ELSE <<>>]

(* ------------------------------------------------------- caller's inputs *)
None == [given |-> FALSE, list |-> <<>>]
MarkerList(l) == [given |-> TRUE, list |-> l]

(* a well-formed dictionary file: nmarkers, markersize and one bit sequence
   of length markersize^2 under each key marker_0 .. marker_(nmarkers-1) *)
Dictionary(nmarkers, markersize) ==
    [nmarkers |-> nmarkers, markersize |-> markersize,
     marker |-> [k \in 0..(nmarkers - 1) |->
                    [p \in 1..(markersize * markersize) |->
                        ((k + 1) \div (2 ^ (p - 1))) % 2]]]

Config(cols, rows, square_size, radius_rate, page_width, page_height, markers, aruco_marker_size, dictionary) ==
    [cols |-> cols, rows |-> rows, square_size |-> square_size,
     radius_rate |-> radius_rate, page_width |-> page_width,
     page_height |-> page_height, markers |-> markers,
     aruco_marker_size |-> aruco_marker_size, dictionary |-> dictionary]

DefaultDictionary == Dictionary(MaxMarkers, MaxBits)

(* the defaults of the command line and of the window *)
DefaultConfig ==
    Config(DefaultColumns, DefaultRows, Q(DefaultSquareSize), Q(DefaultRadiusRate),
           Q(A4Width), Q(A4Height), None, Q(DefaultMarkerSize), DefaultDictionary)

SquareSizes == {Q(DefaultSquareSize), Frac(7, 2)}
RadiusRates == {Q(DefaultRadiusRate), Q(3)}
Pages == {<<Q(A4Width), Q(A4Height)>>, <<Q(A5Width), Q(A5Height)>>}
MarkerSizes == {Q(DefaultMarkerSize), Q(DefaultSquareSize), Q(DefaultSquareSize + 5)}

CircleConfigs ==
    {Config(c, r, s, rr, pg[1], pg[2], None, Q(DefaultMarkerSize), DefaultDictionary) :
        c \in 1..MaxCols, r \in 1..MaxRows, s \in SquareSizes, rr \in RadiusRates,
        pg \in Pages}

MarkerPairs(c, r) == ((-1..1) \X (-1..1)) \cup {<<c, r>>}

MarkerLists(c, r) ==
    {<<p>> : p \in MarkerPairs(c, r)}
    \cup {<<p, <<-1, 2>>>> : p \in MarkerPairs(c, r)}

RadonConfigs ==
    UNION {{Config(c, r, Q(DefaultSquareSize), Q(DefaultRadiusRate), Q(A4Width),
                   Q(A4Height), MarkerList(l), Q(DefaultMarkerSize), DefaultDictionary) :
              l \in MarkerLists(c, r)} :
           c \in 1..MaxCols, r \in 1..MaxRows}

(* Radon boards with one overlay dot on other square and page sizes *)
RadonPageConfigs ==
    UNION {{Config(c, r, sp[1], Q(DefaultRadiusRate), sp[2][1], sp[2][2], MarkerList(<<p>>),
                   Q(DefaultMarkerSize), DefaultDictionary) :
              p \in {<<c, r>>, <<-1, 0>>, <<1, 1>>},
              sp \in (SquareSizes \X Pages) \ {<<Q(DefaultSquareSize), <<Q(A4Width), Q(A4Height)>>>>}} :
           c \in 1..MaxCols, r \in 1..MaxRows}

CharucoConfigs ==
    {Config(c, r, Q(DefaultSquareSize), Q(DefaultRadiusRate), Q(A4Width), Q(A4Height),
            None, a, Dictionary(n, b)) :
        c \in 1..MaxCols, r \in 1..MaxRows, a \in MarkerSizes, n \in 0..MaxMarkers,
        b \in 1..MaxBits}

(* the 5 x 5 Radon board of the documentation *)
Radon5x5Config ==
    Config(5, 5, Q(DefaultSquareSize), Q(DefaultRadiusRate), Q(A4Width), Q(A4Height),
           None, Q(DefaultMarkerSize), DefaultDictionary)

Configs == CircleConfigs \cup RadonConfigs \cup RadonPageConfigs \cup CharucoConfigs
           \cup {DefaultConfig, Radon5x5Config}

CliTypes == {"circles", "acircles", "checkerboard", "radon_checkerboard"}
PatternTypes == CliTypes \cup {"charuco_board"}

(* ------------------------------------------------------------------ state *)
VARIABLES
    ui,       \* the values the caller supplies (command line / window variables)
    pm,       \* the fields PatternMaker.__init__ sets
    g,        \* self.g: the primitives of the drawing group, in emission order
    dwg,      \* self.dwg: the elements added to the drawing
    svg,      \* what get_svg_string last returned (<<>>: never called)
    saved,    \* what save() last wrote to self.output (<<>>: never called)
    printed,  \* what the generation of this instance printed
    raised,   \* the exception the generation raised, "none" if it returned
    ids,      \* the marker ids the generation looked up in the dictionary
    pc,       \* "constructed", "generated", "discarded"
    ptype,    \* the generator that was called on this instance, "none" before
    calls,    \* get_svg_string / save calls made on this instance
    mode,     \* "none" until a caller of the program runs, then "gui" or "cli"
    status,   \* PatternMakerGUI.status_var
    msgbox,   \* the dialog the last handler showed
    call      \* a static helper called on its own: its arguments and result

vars == <<ui, pm, g, dwg, svg, saved, printed, raised, ids, pc, ptype, calls, mode,
          status, msgbox, call>>

NoCall == [fn |-> "none"]

PatternMaker(cfg) ==
    [cols |-> cfg.cols, rows |-> cfg.rows, square_size |-> cfg.square_size,
     radius_rate |-> cfg.radius_rate, width |-> cfg.page_width,
     height |-> cfg.page_height, markers |-> cfg.markers,
     aruco_marker_size |-> cfg.aruco_marker_size, dictionary |-> cfg.dictionary]

Plain(prims) == [g |-> prims, ids |-> <<>>, raised |-> "none", printed |-> <<>>]

(* the call of one generator: what it adds to self.g, prints and raises *)
Generate(type, self) ==
    CASE type = "circles" -> Plain(make_circles_pattern(self))
      [] type = "acircles" -> Plain(make_acircles_pattern(self))
      [] type = "checkerboard" -> Plain(make_checkerboard_pattern(self))
      [] type = "radon_checkerboard" -> Plain(make_radon_checkerboard_pattern(self))
      [] type = "charuco_board" -> make_charuco_board(self)

(* tostring() / save(): every element of the drawing, the group once per add *)
Document(elements, group) == [k \in 1..Len(elements) |-> group]

Init ==
    /\ ui \in Configs
    /\ pm = PatternMaker(ui)
    /\ g = <<>>
    /\ dwg = <<>>
    /\ svg = <<>>
    /\ saved = <<>>
    /\ printed = <<>>
    /\ raised = "none"
    /\ ids = <<>>
    /\ pc = "constructed"
    /\ ptype = "none"
    /\ calls = 0
    /\ mode = "none"
    /\ status = "Ready"
    /\ msgbox = "none"
    /\ call = NoCall

(* the call of one generator method: what it adds, prints and raises *)
CallGenerator(type) ==
    /\ mode = "none"
    /\ \E res \in {Generate(type, pm)} :
           /\ g' = g \o res.g
           /\ printed' = printed \o res.printed
           /\ raised' = res.raised
           /\ ids' = res.ids
    /\ pc' = "generated"
    /\ ptype' = type
    /\ UNCHANGED <<ui, pm, dwg, svg, saved, calls, mode, status, msgbox, call>>

(* every caller constructs a PatternMaker and calls one generator on it *)
Call_make_circles_pattern ==
    /\ pc = "constructed"
    /\ CallGenerator("circles")

Call_make_acircles_pattern ==
    /\ pc = "constructed"
    /\ CallGenerator("acircles")

Call_make_checkerboard_pattern ==
    /\ pc = "constructed"
    /\ CallGenerator("checkerboard")

Call_make_radon_checkerboard_pattern ==
    /\ pc = "constructed"
    /\ CallGenerator("radon_checkerboard")

Call_make_charuco_board ==
    /\ pc = "constructed"
    /\ CallGenerator("charuco_board")


get_svg_string ==
    /\ pc = "generated"
    /\ raised = "none"
    /\ calls < MaxSerial
    /\ dwg' = Append(dwg, "g")
    /\ svg' = Document(dwg', g)
    /\ calls' = calls + 1
    /\ UNCHANGED <<ui, pm, g, saved, printed, raised, ids, pc, ptype, mode, status, msgbox,
                   call>>

save ==
    /\ pc = "generated"
    /\ raised = "none"
    /\ calls < MaxSerial
    /\ dwg' = Append(dwg, "g")
    /\ saved' = Document(dwg', g)
    /\ calls' = calls + 1
    /\ UNCHANGED <<ui, pm, g, svg, printed, raised, ids, pc, ptype, mode, status, msgbox,
                   call>>

(* A handler builds its own PatternMaker from ui and overwrites every output,
   so its outcome is the same from whatever an earlier handler left: it is
   taken from the start state. *)
HandlerStart == mode = "none" /\ pc = "constructed"

(* PatternMakerGUI.generate_preview: self.markers of the window is None *)
generate_preview ==
    /\ HandlerStart
    /\ \E type \in PatternTypes :
        \E res \in {Generate(type, PatternMaker([ui EXCEPT !.markers = None]))} :
            /\ pm' = PatternMaker([ui EXCEPT !.markers = None])
            /\ g' = res.g
            /\ printed' = res.printed
            /\ raised' = res.raised
            /\ ids' = res.ids
            /\ ptype' = type
            /\ IF res.raised = "none"
               THEN /\ dwg' = <<"g">>
                    /\ svg' = Document(dwg', g')
                    /\ calls' = 1
                    /\ status' = "Preview"
                    /\ msgbox' = "none"
               ELSE /\ dwg' = <<>>
                    /\ svg' = <<>>
                    /\ calls' = 0
                    /\ status' = "Error"
                    /\ msgbox' = "showerror"
    /\ saved' = <<>>
    /\ pc' = "discarded"
    /\ mode' = "gui"
    /\ UNCHANGED <<ui, call>>

(* PatternMakerGUI.save_pattern: a cancelled file dialog returns at once *)
save_pattern ==
    /\ HandlerStart
    /\ \E cancelled \in BOOLEAN, type \in PatternTypes :
        IF cancelled
        THEN /\ mode' = "gui"
             /\ UNCHANGED <<ui, pm, g, dwg, svg, saved, printed, raised, ids, pc, ptype,
                            calls, status, msgbox, call>>
        ELSE \E res \in {Generate(type, PatternMaker([ui EXCEPT !.markers = None]))} :
                 /\ pm' = PatternMaker([ui EXCEPT !.markers = None])
                 /\ g' = res.g
                 /\ printed' = res.printed
                 /\ raised' = res.raised
                 /\ ids' = res.ids
                 /\ ptype' = type
                 /\ IF res.raised = "none"
                    THEN /\ dwg' = <<"g">>
                         /\ saved' = Document(dwg', g')
                         /\ calls' = 1
                         /\ status' = "Saved"
                         /\ msgbox' = "showinfo Success"
                    ELSE /\ dwg' = <<>>
                         /\ saved' = <<>>
                         /\ calls' = 0
                         /\ status' = "Error"
                         /\ msgbox' = "showerror"
                 /\ svg' = <<>>
                 /\ pc' = "discarded"
                 /\ mode' = "gui"
                 /\ UNCHANGED <<ui, call>>

PatternSavedMsg == "Pattern saved to"

(* main() with command-line arguments: the four generators of --type *)
main ==
    /\ HandlerStart
    /\ \E type \in CliTypes :
        \E res \in {Generate(type, PatternMaker(ui))} :
            /\ pm' = PatternMaker(ui)
            /\ g' = res.g
            /\ printed' = res.printed \o <<PatternSavedMsg>>
            /\ raised' = res.raised
            /\ ids' = res.ids
            /\ ptype' = type
            /\ dwg' = <<"g">>
            /\ saved' = Document(dwg', g')
            /\ calls' = 1
    /\ svg' = <<>>
    /\ pc' = "discarded"
    /\ mode' = "cli"
    /\ UNCHANGED <<ui, status, msgbox, call>>

Next ==
    \/ Call_make_circles_pattern
    \/ Call_make_acircles_pattern
    \/ Call_make_checkerboard_pattern
    \/ Call_make_radon_checkerboard_pattern
    \/ Call_make_charuco_board
    \/ get_svg_string
    \/ save
    \/ generate_preview
    \/ save_pattern
    \/ main

Spec == Init /\ [][Next]_vars

(* ------------------------------------- the static helpers called on their own *)
CornerFlags == [1..4 -> {"right", "round"}]

RoundRectOrigins == {<<Q(0), Q(0)>>, <<Q(55), Frac(197, 2)>>, <<Q(-10), Frac(7, 2)>>}

PureCalls ==
    UNION {{[fn |-> "_create_marker_bits", args |-> <<n, bits>>, done |-> FALSE,
             result |-> <<>>] : bits \in [1..(n * n) -> {0, 1}]} : n \in 1..MaxBits}
    \cup {[fn |-> "_make_round_rect", args |-> <<o[1], o[2], diam, corners>>,
           done |-> FALSE, result |-> <<>>] :
             o \in RoundRectOrigins, diam \in SquareSizes, corners \in CornerFlags}

InitPure ==
    /\ ui = DefaultConfig
    /\ pm = PatternMaker(ui)
    /\ g = <<>>
    /\ dwg = <<>>
    /\ svg = <<>>
    /\ saved = <<>>
    /\ printed = <<>>
    /\ raised = "none"
    /\ ids = <<>>
    /\ pc = "constructed"
    /\ ptype = "none"
    /\ calls = 0
    /\ mode = "none"
    /\ status = "Ready"
    /\ msgbox = "none"
    /\ call \in PureCalls

Apply_create_marker_bits ==
    /\ call.fn = "_create_marker_bits"
    /\ ~call.done
    /\ call' = [call EXCEPT !.done = TRUE,
                            !.result = _create_marker_bits(call.args[1], call.args[2])]
    /\ UNCHANGED <<ui, pm, g, dwg, svg, saved, printed, raised, ids, pc, ptype, calls,
                   mode, status, msgbox>>

Apply_make_round_rect ==
    /\ call.fn = "_make_round_rect"
    /\ ~call.done
    /\ call' = [call EXCEPT !.done = TRUE,
                            !.result = _make_round_rect(call.args[1], call.args[2],
                                                        call.args[3], call.args[4])]
    /\ UNCHANGED <<ui, pm, g, dwg, svg, saved, printed, raised, ids, pc, ptype, calls,
                   mode, status, msgbox>>

NextPure == Apply_create_marker_bits \/ Apply_make_round_rect

SpecPure == InitPure /\ [][NextPure]_vars

(* ================================================================ claims *)
Has(seq, m) == \E i \in 1..Len(seq) : seq[i] = m

Generated(type) == pc # "constructed" /\ ptype = type

(* cells (x, y) of the grid with x mod 2 = y mod 2, counted directly *)
NumFilled(cols, rows) ==
    Cardinality({c \in (0..(cols - 1)) \X (0..(rows - 1)) : (c[1] + c[2]) % 2 = 0})

NumUnfilled(cols, rows) == cols * rows - NumFilled(cols, rows)

Ones(bits) == Cardinality({p \in DOMAIN bits : bits[p] = 1})

(* primitives of markers 0 .. n-1: the marker square and one square per set bit *)
RECURSIVE MarkerPrimitives(_, _)
MarkerPrimitives(dictionary, n) ==
    IF n = 0 THEN 0
    ELSE MarkerPrimitives(dictionary, n - 1) + 1 + Ones(dictionary.marker[n - 1])

ValidationFailed == Has(printed, MarkerTooLargeMsg) \/ Has(printed, InsufficientMarkersMsg)

IsCheckerboardFamily ==
    ptype \in {"checkerboard", "radon_checkerboard", "charuco_board"}

(* C1 as stated: for every checkerboard-family board the number of primitives
   one generation call emits equals the number of cells with
   x mod 2 = y mod 2. *)
C1_Original ==
    (pc # "constructed" /\ IsCheckerboardFamily)
        => Len(g) = NumFilled(pm.cols, pm.rows)

(* C1 amended: the count equals the number of filled cells for the plain
   checkerboard and for the Radon board without a marker list; the Radon
   board with a list adds one dot per listed pair; a marker board that passes
   validation emits the filled cells plus, per unfilled cell, one marker
   square and one square per set bit, and nothing when validation fails. *)
C1_PrimitiveCount ==
    /\ Generated("checkerboard") => Len(g) = NumFilled(pm.cols, pm.rows)
    /\ Generated("radon_checkerboard") =>
          Len(g) = NumFilled(pm.cols, pm.rows)
                   + (IF pm.markers.given THEN Len(pm.markers.list) ELSE 0)
    /\ (Generated("charuco_board") /\ ~ValidationFailed) =>
          Len(g) = NumFilled(pm.cols, pm.rows)
                   + MarkerPrimitives(pm.dictionary, NumUnfilled(pm.cols, pm.rows))
    /\ (Generated("charuco_board") /\ ValidationFailed) => Len(g) = 0

C1_Witness ==
    /\ Generated("charuco_board")
    /\ ~ValidationFailed
    /\ pm.cols = 3 /\ pm.rows = 3
    /\ Len(g) > NumFilled(pm.cols, pm.rows)

(* C2 as stated: a marker board with markerSize equal to squareSize fails
   with the marker-too-large error and emits nothing. *)
C2_Original ==
    (Generated("charuco_board") /\ pm.aruco_marker_size = pm.square_size)
        => (Has(printed, MarkerTooLargeMsg) /\ g = <<>>)

(* C2 amended: the marker-too-large error is given, and nothing emitted,
   exactly when markerSize is strictly above squareSize; with markerSize equal
   to or below squareSize the check passes and, the dictionary being
   sufficient, the board is generated. *)
C2_MarkerSizeCheck ==
    Generated("charuco_board") =>
        /\ Has(printed, MarkerTooLargeMsg)
              <=> pm.square_size[1] * pm.aruco_marker_size[2]
                      < pm.aruco_marker_size[1] * pm.square_size[2]
        /\ Has(printed, MarkerTooLargeMsg) => g = <<>>
        /\ (~Has(printed, MarkerTooLargeMsg)
            /\ pm.dictionary.nmarkers >= (pm.cols * pm.rows) \div 2)
              => (g # <<>> /\ ~ValidationFailed /\ raised = "none")

C2_Witness ==
    /\ Generated("charuco_board")
    /\ pm.aruco_marker_size = pm.square_size
    /\ ~Has(printed, MarkerTooLargeMsg)
    /\ g # <<>>

(* C3 as stated: a dictionary with markerCount below ceil(columns*rows/2)
   fails with the insufficient-markers error. *)
C3_Original ==
    (Generated("charuco_board") /\ ~Has(printed, MarkerTooLargeMsg)
     /\ pm.dictionary.nmarkers < (pm.cols * pm.rows + 1) \div 2)
        => Has(printed, InsufficientMarkersMsg)

(* C3 amended: the threshold is floor(columns*rows/2): below it generation
   fails with the insufficient-markers error, at or above it generation
   succeeds; for odd columns*rows a markerCount of ceil(columns*rows/2) - 1
   therefore succeeds. *)
C3_MarkerCountCheck ==
    (Generated("charuco_board") /\ ~Has(printed, MarkerTooLargeMsg)) =>
        /\ Has(printed, InsufficientMarkersMsg)
              <=> pm.dictionary.nmarkers < (pm.cols * pm.rows) \div 2
        /\ Has(printed, InsufficientMarkersMsg) => g = <<>>
        /\ ~Has(printed, InsufficientMarkersMsg)
              => (raised = "none" /\ g # <<>>
                  /\ Len(ids) = NumUnfilled(pm.cols, pm.rows))

C3_Witness ==
    /\ Generated("charuco_board")
    /\ pm.cols = 3 /\ pm.rows = 3
    /\ pm.dictionary.nmarkers = 4
    /\ ~ValidationFailed
    /\ Len(ids) = 4

(* C4: whenever marker-board generation stops on a validation failure, the
   drawing group holds no primitive and no marker was looked up. *)
C4_NoPartialBoard ==
    (Generated("charuco_board") /\ ValidationFailed) => (g = <<>> /\ ids = <<>>)

C4_Witness ==
    /\ Generated("charuco_board")
    /\ Has(printed, InsufficientMarkersMsg)
    /\ pm.cols = 3 /\ pm.rows = 3
    /\ g = <<>>

(* C5: a marker-board generation that fails validation ends in an error
   outcome its caller can tell from success, and no caller that serializes or
   saves after it reports a generated board. *)
C5_FailureIsReported ==
    (Generated("charuco_board") /\ ValidationFailed /\ mode = "gui") =>
        /\ raised # "none"
        /\ status \notin {"Preview", "Saved"}
        /\ msgbox # "showinfo Success"

IsDefaultBoard ==
    /\ pm.cols = DefaultColumns /\ pm.rows = DefaultRows
    /\ pm.square_size = Q(DefaultSquareSize) /\ pm.radius_rate = Q(DefaultRadiusRate)
    /\ pm.width = Q(A4Width) /\ pm.height = Q(A4Height)

(* C6 as stated: for columns=8, rows=11, squareSize=20, radiusRate=5 on a
   210x297 page the circle grid has radius 4, offsets (31, 94.5) and the
   circle of cell (0,0) at (35, 98.5). *)
C6_Original ==
    (Generated("circles") /\ IsDefaultBoard) =>
        /\ g[1].r = Q(4)
        /\ g[1].center = <<Q(35), Frac(197, 2)>>
        /\ <<QSub(g[1].center[1], g[1].r), QSub(g[1].center[2], g[1].r)>>
              = <<Q(31), Frac(189, 2)>>

(* C6 amended: for that board the radius is 4, the offsets are (31, 44.5)
   and the circle of cell (0,0) is at (35, 48.5). *)
C6_DefaultCircleGrid ==
    (Generated("circles") /\ IsDefaultBoard) =>
        /\ Len(g) = DefaultColumns * DefaultRows
        /\ \A k \in 1..Len(g) : g[k].r = Q(4)
        /\ g[1].center = <<Q(35), Frac(97, 2)>>
        /\ <<QSub(g[1].center[1], g[1].r), QSub(g[1].center[2], g[1].r)>>
              = <<Q(31), Frac(89, 2)>>

C6_Witness ==
    /\ Generated("circles") /\ IsDefaultBoard
    /\ g[1].center = <<Q(35), Frac(97, 2)>>

(* the circle of cell (x, y) in the x-outer emission order *)
CircleAt(x, y) == g[x * pm.rows + y + 1]

(* C7: in the asymmetric circle grid, at every column the center
   x-coordinate of row y+1 minus that of row y is +squareSize for even y and
   -squareSize for odd y, and rows y and y+2 have the same x-coordinate. *)
C7_RowStagger ==
    Generated("acircles") =>
        \A x \in 0..(pm.cols - 1) :
            /\ \A y \in 0..(pm.rows - 2) :
                  QSub(CircleAt(x, y + 1).center[1], CircleAt(x, y).center[1])
                    = IF y % 2 = 0 THEN pm.square_size
                      ELSE QSub(Q(0), pm.square_size)
            /\ \A y \in 0..(pm.rows - 3) :
                  CircleAt(x, y + 2).center[1] = CircleAt(x, y).center[1]

C7_Witness ==
    /\ Generated("acircles")
    /\ pm.rows >= 3 /\ pm.cols >= 2
    /\ QSub(CircleAt(1, 2).center[1], CircleAt(1, 1).center[1])
          = QSub(Q(0), pm.square_size)

PathOps(d) == [i \in 1..Len(d) |-> d[i].op]

Is5x5Radon ==
    /\ Generated("radon_checkerboard")
    /\ pm.cols = 5 /\ pm.rows = 5
    /\ pm.square_size = Q(DefaultSquareSize)
    /\ pm.width = Q(A4Width) /\ pm.height = Q(A4Height)

(* C8 as stated: in the 5x5 Radon board cell (0,0) has corner flags
   {round, square, square, round} clockwise from top-left, and cell (2,2) is
   an interior plain rectangle. *)
C8_Original ==
    Is5x5Radon =>
        /\ _get_type(pm, 0, 0).corners = <<"round", "right", "right", "round">>
        /\ g[1].shape = "path"
        /\ PathOps(g[1].d) = <<"M", "A", "L", "L", "L", "L", "A", "Z">>
        /\ _get_type(pm, 2, 2).is_inside
        /\ g[7].shape = "rect"

(* C8 amended: cell (0,0) of the 5x5 Radon board is filled, emitted as a
   path, and has corner flags {round, round, square, round}: top-left,
   top-right and bottom-left are round, only bottom-right is square; cell
   (2,2) is filled, interior, and emitted as a plain rectangle. *)
C8_Radon5x5 ==
    Is5x5Radon =>
        /\ _get_type(pm, 0, 0).corners = <<"round", "round", "right", "round">>
        /\ ~_get_type(pm, 0, 0).is_inside
        /\ g[1].shape = "path"
        /\ g[1].d[1].to = <<Q(65), Frac(197, 2)>>
        /\ PathOps(g[1].d) = <<"M", "A", "A", "L", "L", "A", "Z">>
        /\ _get_type(pm, 2, 2).is_inside
        /\ g[7].shape = "rect"
        /\ g[7].insert = <<Q(95), Frac(277, 2)>>
        /\ g[7].size = <<Q(20), Q(20)>>

C8_Witness ==
    /\ Is5x5Radon
    /\ g[1].shape = "path"
    /\ g[7].shape = "rect"

(* C9: every contour _make_round_rect produces is closed: its move-to point
   is the end point of its last segment before the close command. *)
C9_ContourClosed ==
    \A i \in 1..Len(g) :
        g[i].shape = "path" => g[i].d[1].to = g[i].d[Len(g[i].d) - 1].to

(* C10: for every (x, y) of the Radon board's marker list, negative and
   off-grid pairs included, exactly one dot of radius 0.17*squareSize is
   emitted after all cell primitives, white when x mod 2 = y mod 2 and black
   otherwise. *)
C10_OverlayDots ==
    (Generated("radon_checkerboard") /\ pm.markers.given) =>
        LET n == NumFilled(pm.cols, pm.rows)
            l == pm.markers.list
        IN  /\ Len(g) = n + Len(l)
            /\ \A k \in 1..n : g[k].shape \in {"rect", "path"}
            /\ \A k \in 1..Len(l) :
                  /\ g[n + k].shape = "circle"
                  /\ g[n + k].r = Frac(17 * pm.square_size[1], 100 * pm.square_size[2])
                  /\ g[n + k].fill = IF (l[k][1] - l[k][2]) % 2 = 0
                                     THEN "white" ELSE "black"

C10_Witness ==
    /\ Generated("radon_checkerboard") /\ pm.markers.given
    /\ pm.markers.list = <<<<-1, 1>>, <<-1, 2>>>>
    /\ g[Len(g) - 1].fill = "white"
    /\ g[Len(g)].fill = "black"

(* ---- marker board: the scan of the claims, stated apart from the model ---- *)
(* cell number c (from 1) of the scan with y outer and x inner *)
ScanCell(c) == <<(c - 1) % pm.cols, (c - 1) \div pm.cols>>

ScanUnfilled(c) == (ScanCell(c)[1] + ScanCell(c)[2]) % 2 = 1

UnfilledBefore(c) == Cardinality({j \in 1..(c - 1) : ScanUnfilled(j)})

(* where the primitives of scan cell c start in g, if the markers are used
   in order *)
ScanStart(c) ==
    1 + ((c - 1) - UnfilledBefore(c))
      + MarkerPrimitives(pm.dictionary, UnfilledBefore(c))

CellOrigin(x, y) ==
    <<Frac(2 * x * pm.square_size[1] * pm.width[2]
             + pm.width[1] * pm.square_size[2]
             - pm.cols * pm.square_size[1] * pm.width[2],
           2 * pm.square_size[2] * pm.width[2]),
      Frac(2 * y * pm.square_size[1] * pm.height[2]
             + pm.height[1] * pm.square_size[2]
             - pm.rows * pm.square_size[1] * pm.height[2],
           2 * pm.square_size[2] * pm.height[2])>>

MarkerBorder == QDiv(QSub(pm.square_size, pm.aruco_marker_size), Q(2))

BitSide == QDiv(pm.aruco_marker_size, Q(pm.dictionary.markersize + 2))

MarkerOrigin(x, y) ==
    <<QAdd(CellOrigin(x, y)[1], MarkerBorder), QAdd(CellOrigin(x, y)[2], MarkerBorder)>>

(* where the white squares of dictionary marker k belong in the cell (x, y) *)
BitSquares(k, x, y) ==
    LET n == pm.dictionary.markersize
        bits == pm.dictionary.marker[k]
    IN  {<<QAdd(MarkerOrigin(x, y)[1], QMul(Q(j + 1), BitSide)),
           QAdd(MarkerOrigin(x, y)[2], QMul(Q(i + 1), BitSide))>> :
            <<i, j>> \in {ij \in (0..(n - 1)) \X (0..(n - 1)) :
                            bits[ij[1] * n + ij[2] + 1] = 1}}

CharucoSucceeded ==
    Generated("charuco_board") /\ ~ValidationFailed /\ raised = "none"

(* C11: in a successful marker-board generation the k-th unfilled cell of the
   scan with y outer and x inner is drawn with dictionary marker k: the ids
   looked up are 0, 1, 2, ... with none skipped or reused, and filled cells
   use none. *)
C11_MarkerOrder ==
    CharucoSucceeded =>
        /\ ids = [i \in 1..NumUnfilled(pm.cols, pm.rows) |-> i - 1]
        /\ \A c \in 1..(pm.cols * pm.rows) :
              LET x == ScanCell(c)[1]
                  y == ScanCell(c)[2]
                  k == UnfilledBefore(c)
                  at == ScanStart(c)
              IN  IF ScanUnfilled(c)
                  THEN /\ g[at].fill = "black"
                       /\ g[at].insert = MarkerOrigin(x, y)
                       /\ {g[at + i].insert : i \in 1..Ones(pm.dictionary.marker[k])}
                             = BitSquares(k, x, y)
                       /\ \A i \in 1..Ones(pm.dictionary.marker[k]) :
                             g[at + i].fill = "white"
                  ELSE /\ g[at].insert = CellOrigin(x, y)
                       /\ g[at].size = <<pm.square_size, pm.square_size>>
                       /\ g[at].fill = "black"

C11_Witness ==
    /\ CharucoSucceeded
    /\ pm.cols = 3 /\ pm.rows = 3 /\ pm.dictionary.markersize = 2
    /\ ids = <<0, 1, 2, 3>>
    /\ g[ScanStart(8)].insert = MarkerOrigin(1, 2)

(* C12 as stated: every primitive any of the five generators emits is a
   filled shape with no stroke. *)
C12_Original ==
    \A i \in 1..Len(g) : g[i].fill \in {"black", "white"} /\ g[i].stroke = "none"

(* C12 amended: every primitive is a filled shape, and every one has no
   stroke except the white bit squares of the marker board, which are drawn
   with a white stroke of width 0.01*squareSize. *)
C12_FilledNoStroke ==
    \A i \in 1..Len(g) :
        /\ g[i].fill \in {"black", "white"}
        /\ IF ptype = "charuco_board" /\ g[i].fill = "white"
           THEN /\ g[i].stroke = "white"
                /\ g[i].stroke_width
                      = Frac(pm.square_size[1], 100 * pm.square_size[2])
           ELSE g[i].stroke = "none"

C12_Witness ==
    /\ CharucoSucceeded
    /\ \E i \in 1..Len(g) : g[i].fill = "white" /\ g[i].stroke = "white"
    /\ \E i \in 1..Len(g) : g[i].fill = "black" /\ g[i].stroke = "none"

(* C16: in a marker-board generation that passes the marker-count check every
   marker id looked up is in 0..markerCount-1, because the unfilled cells never
   outnumber int(columns*rows/2): no marker missing from the dictionary is
   requested. *)
C16_MarkerIdsInRange ==
    (Generated("charuco_board") /\ ~ValidationFailed) =>
        /\ raised = "none"
        /\ \A i \in 1..Len(ids) :
              ids[i] \in 0..(pm.dictionary.nmarkers - 1)
        /\ Len(ids) = NumUnfilled(pm.cols, pm.rows)
        /\ NumUnfilled(pm.cols, pm.rows) <= (pm.cols * pm.rows) \div 2

C16_Witness ==
    /\ Generated("charuco_board") /\ ~ValidationFailed
    /\ pm.cols = 3 /\ pm.rows = 3
    /\ pm.dictionary.nmarkers = 4
    /\ ids[Len(ids)] = 3

QLe(a, b) == a[1] * b[2] <= b[1] * a[2]

(* the square at p of side w lies in the square at q of side v, at least d
   away from each of its four edges *)
InsideBy(p, w, q, v, d) ==
    /\ QLe(QAdd(q[1], d), p[1]) /\ QLe(QAdd(p[1], w), QSub(QAdd(q[1], v), d))
    /\ QLe(QAdd(q[2], d), p[2]) /\ QLe(QAdd(p[2], w), QSub(QAdd(q[2], v), d))

(* C17: in a successful marker-board generation each marker's black square
   lies inside its own cell, and every white bit square of the marker lies
   inside the black square at least one bit-cell side (markerSize divided by
   bitsPerSide + 2) away from each of its edges. *)
C17_MarkerInsideCell ==
    CharucoSucceeded =>
        \A c \in 1..(pm.cols * pm.rows) :
            ScanUnfilled(c) =>
                LET x == ScanCell(c)[1]
                    y == ScanCell(c)[2]
                    at == ScanStart(c)
                    k == UnfilledBefore(c)
                IN  /\ g[at].size = <<pm.aruco_marker_size, pm.aruco_marker_size>>
                    /\ InsideBy(g[at].insert, pm.aruco_marker_size,
                                CellOrigin(x, y), pm.square_size, Q(0))
                    /\ \A i \in 1..Ones(pm.dictionary.marker[k]) :
                          /\ g[at + i].size = <<BitSide, BitSide>>
                          /\ InsideBy(g[at + i].insert, BitSide,
                                      g[at].insert, pm.aruco_marker_size, BitSide)

C17_Witness ==
    /\ CharucoSucceeded
    /\ pm.aruco_marker_size = pm.square_size
    /\ pm.dictionary.markersize = 2
    /\ Len(ids) >= 3
    /\ g[ScanStart(2) + 1].fill = "white"

(* C18: serialization does not change the document: after one generation
   call every get_svg_string and save yields a document that holds each
   emitted primitive exactly once, so a second serialization equals the
   first. *)
C18_SerializationKeepsDocument ==
    /\ svg # <<>> => svg = <<g>>
    /\ saved # <<>> => saved = <<g>>

(* the least and the greatest of a non-empty set of rationals *)
QMin(S) == CHOOSE a \in S : \A b \in S : QLe(a, b)
QMax(S) == CHOOSE a \in S : \A b \in S : QLe(b, a)

(* C19: for the asymmetric circle grid and all columns, rows >= 1 the
   bounding box of the emitted circles is centered on the page: left margin
   equals right margin and top margin equals bottom margin, single-row boards
   included. *)
C19_ACirclesCentered ==
    Generated("acircles") =>
        LET xs == {g[i].center[1] : i \in 1..Len(g)}
            ys == {g[i].center[2] : i \in 1..Len(g)}
            r == g[1].r
        IN  /\ QSub(QMin(xs), r) = QSub(QSub(pm.width, QMax(xs)), r)
            /\ QSub(QMin(ys), r) = QSub(QSub(pm.height, QMax(ys)), r)

(* C15: every overlay dot of the Radon board at (x, y) is centered on the
   geometric center of checkerboard cell (x, y) of the cell pass,
   (x*squareSize + (pageWidth - columns*squareSize)/2 + squareSize/2, likewise
   in y), for any columns, rows, squareSize and page: the dot radius cancels
   out of the position. *)
C15_DotAtCellCenter ==
    (Generated("radon_checkerboard") /\ pm.markers.given) =>
        LET n == NumFilled(pm.cols, pm.rows)
            l == pm.markers.list
            half == QDiv(pm.square_size, Q(2))
        IN  \A k \in 1..Len(l) :
                g[n + k].center
                  = <<QAdd(CellOrigin(l[k][1], l[k][2])[1], half),
                      QAdd(CellOrigin(l[k][1], l[k][2])[2], half)>>

C15_Witness ==
    /\ Generated("radon_checkerboard") /\ pm.markers.given
    /\ pm.square_size = Frac(7, 2) /\ pm.width = Q(A5Width)
    /\ pm.cols = 3 /\ pm.rows = 2
    /\ pm.markers.list = <<<<-1, 0>>>>
    /\ g[Len(g)].center = <<Q(67), Frac(413, 4)>>

(* C13: for every bitsPerSide n >= 1 and every flat bit sequence of length
   n*n, _create_marker_bits returns an (n+2) x (n+2) grid whose outer ring is
   all 0 and whose entry (i+1, j+1) is bit number i*n + j of the sequence. *)
C13_MarkerBitGrid ==
    (call.fn = "_create_marker_bits" /\ call.done) =>
        LET n == call.args[1]
            bits == call.args[2]
            m == call.result
        IN  /\ DOMAIN m = 0..(n + 1)
            /\ \A i \in 0..(n + 1) : DOMAIN m[i] = 0..(n + 1)
            /\ \A i \in 0..(n + 1) :
                  m[0][i] = 0 /\ m[n + 1][i] = 0 /\ m[i][0] = 0 /\ m[i][n + 1] = 0
            /\ \A i \in 0..(n - 1) : \A j \in 0..(n - 1) :
                  m[i + 1][j + 1] = bits[i * n + j + 1]

C13_Witness ==
    /\ call.fn = "_create_marker_bits" /\ call.done
    /\ call.args = <<2, <<0, 1, 0, 0>>>>
    /\ call.result[1][2] = 1
    /\ call.result[2][1] = 0

(* the midpoint of the edge before corner i (0..3, clockwise from top-left)
   and the raw corner i of the square at (x, y) of side diam *)
EdgeMidBefore(x, y, diam, i) ==
    LET rad == QDiv(diam, Q(2))
    IN  CASE i % 4 = 0 -> <<x, QAdd(y, rad)>>
          [] i % 4 = 1 -> <<QAdd(x, rad), y>>
          [] i % 4 = 2 -> <<QAdd(x, diam), QAdd(y, rad)>>
          [] i % 4 = 3 -> <<QAdd(x, rad), QAdd(y, diam)>>

RawCorner(x, y, diam, i) ==
    CASE i = 0 -> <<x, y>>
      [] i = 1 -> <<QAdd(x, diam), y>>
      [] i = 2 -> <<QAdd(x, diam), QAdd(y, diam)>>
      [] i = 3 -> <<x, QAdd(y, diam)>>

(* where the piece of corner i starts in the contour d *)
PieceAt(corners, i) ==
    2 + Cardinality({j \in 0..(i - 1) : corners[j + 1] = "round"})
      + 2 * Cardinality({j \in 0..(i - 1) : corners[j + 1] = "right"})

(* the piece of corner i runs from the midpoint of the edge before the corner
   to the midpoint of the edge after it, as an arc of radius diam/2 or as two
   segments meeting at the raw corner *)
CornerPieceOk(x, y, diam, corners, d, i) ==
    LET at == PieceAt(corners, i)
        from == d[at - 1].to
    IN  /\ from = EdgeMidBefore(x, y, diam, i)
        /\ IF corners[i + 1] = "round"
           THEN /\ d[at].op = "A"
                /\ d[at].r = <<QDiv(diam, Q(2)), QDiv(diam, Q(2))>>
                /\ d[at].to = EdgeMidBefore(x, y, diam, i + 1)
                /\ d[at].to # from
           ELSE /\ d[at].op = "L"
                /\ d[at].to = RawCorner(x, y, diam, i)
                /\ d[at + 1].op = "L"
                /\ d[at + 1].to = EdgeMidBefore(x, y, diam, i + 1)

(* C14: in the contour of _make_round_rect the piece of each of the four
   corners starts at the midpoint of the edge before the corner and ends at
   the midpoint of the edge after it, a round corner being a quarter-circle
   arc of radius side/2 between two distinct midpoints and a square corner two
   segments meeting at the raw corner; for the top-left corner as for the
   other three. *)
C14_CornerPieces ==
    (call.fn = "_make_round_rect" /\ call.done) =>
        \A i \in 0..3 :
            CornerPieceOk(call.args[1], call.args[2], call.args[3], call.args[4],
                          call.result, i)

====
